---- MODULE Spec2Model ----
(***************************************************************************)
(* Model of the web-transcriber backend: the /transcribe request handler   *)
(* (backend/main.py), the caption line splitter (backend/utils.py) and the *)
(* request schema (backend/schemas.py).                                    *)
(*                                                                         *)
(* Strings are sequences of one-character strings.  Times inside the       *)
(* splitter are exact rationals: a caption line of a segment with n words  *)
(* keeps its start and end as numerators over the denominator n, in        *)
(* microseconds (the code computes the same expressions in binary floating *)
(* point).                                                                 *)
(*                                                                         *)
(* create_transcription_request is an "async def" that never awaits: one   *)
(* handler runs from its first to its last statement before the next one   *)
(* starts.  The cleanup tasks given to BackgroundTasks run after the        *)
(* response, in the thread pool, concurrently with later handlers.         *)
(* Spec is one worker process; SharedSpec adds a second worker process of  *)
(* the application on the same Redis store.                                *)
(***************************************************************************)
EXTENDS Integers, Sequences, FiniteSets, TLC

VARIABLES
    \* ---- caption splitter harness -------------------------------------
    segments,        \* the segment list given to segments_to_srt_custom_lines
    srt_lines,       \* its result (NoneV until the function has been applied)
    \* ---- cache key harness --------------------------------------------
    key_reqs,        \* a pair of requests
    key_out,         \* their cache keys (NoneV until derived)
    \* ---- request handler ----------------------------------------------
    started,         \* startup_event has run
    url_is_str,      \* the installed pydantic's HttpUrl is a str subclass
    whisper_model,   \* global: TRUE when the model is loaded, FALSE for None
    redis_client,    \* global: TRUE when a client handle exists, FALSE for None
    cache,           \* the Redis store: key -> payload
    peer,            \* a second worker process between its cache get and set
    nreq,            \* number of requests received so far (request ids 1..nreq)
    pc,              \* position of the running handler
    request,         \* the request being handled
    r_client,        \* handler local: the cache handle (FALSE for None)
    cache_key,       \* handler local
    result,          \* handler local: the transcriber's result
    response_data,   \* handler local
    exc,             \* the exception in flight
    outcome,         \* what the caller of the running/last request got
    events,          \* what the running/last request did and met
    dirs,            \* request id -> state of its working directory
    cleanups,        \* request id -> number of cleanup_temp_folder calls on it
    tasks            \* request ids whose background cleanup task is pending

split_vars == <<segments, srt_lines>>
key_vars   == <<key_reqs, key_out>>
pipe_vars  == <<started, url_is_str, whisper_model, redis_client, cache,
                peer, nreq, pc, request,
                r_client, cache_key, result, response_data, exc, outcome,
                events, dirs, cleanups, tasks>>
vars == <<split_vars, key_vars, pipe_vars>>

\* Optional values: None is the empty tuple, a present value x is <<x>>
NoneV == <<>>
Some(x) == <<x>>

(***************************************************************************)
(* Bounds of the model.                                                    *)
(***************************************************************************)
MaxTextLen  == 7    \* total number of characters of the segment texts
MaxSegments == 2    \* segments in one transcriber result
MaxTime     == 1    \* largest segment start/end, in seconds
MaxTimeStr  == 2    \* length of a start_time / end_time string
MaxRequests == 2    \* requests received in one run

Min(a, b) == IF a <= b THEN a ELSE b

(***************************************************************************)
(* backend/utils.py                                                        *)
(***************************************************************************)
min_words_per_line    == 2
target_words_per_line == 3
\* epsilon = 1e-6 seconds: one microsecond; times are counted in microseconds
MicrosPerSecond == 1000000
epsilon == 1

\* str.strip().split(): the maximal runs of non-whitespace characters
RECURSIVE SplitFrom(_, _, _, _)
SplitFrom(text, i, cur, acc) ==
    IF i > Len(text)
    THEN IF cur = <<>> THEN acc ELSE Append(acc, cur)
    ELSE IF text[i] = " "
         THEN SplitFrom(text, i + 1, <<>>,
                        IF cur = <<>> THEN acc ELSE Append(acc, cur))
         ELSE SplitFrom(text, i + 1, Append(cur, text[i]), acc)

SplitWords(text) == SplitFrom(text, 1, <<>>, <<>>)

\* word_duration as a numerator over len(words), in microseconds
WordDurationNum(segment) ==
    LET segment_duration == (segment.end - segment.start) * MicrosPerSecond
    IN  IF segment_duration > 0 THEN segment_duration ELSE 0

\* every line taking all the words that remain
LineEndWordIndexAllRemaining(n, current_word_index) == n

\* if len(words) - current_word_index > min: min(current + target, len) else len
LineEndWordIndex(n, current_word_index) ==
    IF n - current_word_index > min_words_per_line
    THEN Min(current_word_index + target_words_per_line, n)
    ELSE n

\* every line starting where its segment starts
LineStartAtSegmentStart(segment, n, current_word_index) ==
    segment.start * MicrosPerSecond * n

\* line_start_seconds, over the denominator n
LineStart(segment, n, current_word_index) ==
    segment.start * MicrosPerSecond * n
        + current_word_index * WordDurationNum(segment)

\* the line end without the min(..., segment_end_time) clamp
LineEndUnclamped(segment, n, line_end_word_index) ==
    segment.start * MicrosPerSecond * n
        + line_end_word_index * WordDurationNum(segment) + epsilon * n

\* the epsilon added after the clamp instead of before it
LineEndEpsilonAfterClamp(segment, n, line_end_word_index) ==
    Min(segment.start * MicrosPerSecond * n
            + line_end_word_index * WordDurationNum(segment),
        segment.end * MicrosPerSecond * n) + epsilon * n

\* line_end_seconds, over the denominator n
LineEnd(segment, n, line_end_word_index) ==
    Min(segment.start * MicrosPerSecond * n
            + line_end_word_index * WordDurationNum(segment) + epsilon * n,
        segment.end * MicrosPerSecond * n)

\* round(): the nearest integer to num/den, ties to the even one
RoundHalfEven(num, den) ==
    LET q == num \div den
        r == num % den
    IN  IF 2 * r < den THEN q
        ELSE IF 2 * r > den THEN q + 1
        ELSE IF q % 2 = 0 THEN q ELSE q + 1

\* format_timestamp: HH:MM:SS,mmm of a time num/den microseconds
format_timestamp(num, den) ==
    LET milliseconds == RoundHalfEven(num, den * 1000)
    IN  [hours   |-> milliseconds \div 3600000,
         minutes |-> (milliseconds % 3600000) \div 60000,
         seconds |-> (milliseconds % 60000) \div 1000,
         millis  |-> milliseconds % 1000]

\* the while loop over one segment's words
RECURSIVE SegmentLines(_, _, _, _)
SegmentLines(segment, words, current_word_index, segment_line_idx) ==
    IF current_word_index >= Len(words) THEN <<>>
    ELSE LET n == Len(words)
             line_end_word_index == LineEndWordIndex(n, current_word_index)
             line == [index |-> segment_line_idx,
                      seg   |-> segment,
                      den   |-> n,
                      first |-> current_word_index,
                      start |-> LineStart(segment, n, current_word_index),
                      end   |-> LineEnd(segment, n, line_end_word_index),
                      start_str |-> format_timestamp(
                          LineStart(segment, n, current_word_index), n),
                      end_str |-> format_timestamp(
                          LineEnd(segment, n, line_end_word_index), n),
                      words |-> SubSeq(words, current_word_index + 1,
                                       line_end_word_index)]
         IN  <<line>> \o SegmentLines(segment, words, line_end_word_index,
                                      segment_line_idx + 1)

\* the for loop over the segments; the line index is carried across them
RECURSIVE LinesFrom(_, _, _)
LinesFrom(segs, s, segment_line_idx) ==
    IF s > Len(segs) THEN <<>>
    ELSE LET words == SplitWords(segs[s].text)
             lines == SegmentLines(segs[s], words, 0, segment_line_idx)
         IN  IF words = <<>>
             THEN LinesFrom(segs, s + 1, segment_line_idx)
             ELSE lines \o LinesFrom(segs, s + 1, segment_line_idx + Len(lines))

segments_to_srt_custom_lines(segs) == LinesFrom(segs, 1, 1)

(***************************************************************************)
(* Inputs of the caption splitter: chronologically ordered, non-           *)
(* overlapping segments (what the transcriber produces), their texts over  *)
(* a two-letter alphabet with MaxTextLen characters in all.                *)
(***************************************************************************)
TextAlphabet == {"a", " "}

TextsUpTo(n) == UNION {[1..k -> TextAlphabet] : k \in 0..n}

SegmentsFrom(tmin, budget) ==
    {[start |-> s, end |-> e, text |-> t] :
        s \in tmin..MaxTime, e \in tmin..MaxTime, t \in TextsUpTo(budget)}

RECURSIVE TotalTextLen(_)
TotalTextLen(segs) ==
    IF segs = <<>> THEN 0 ELSE Len(Head(segs).text) + TotalTextLen(Tail(segs))

\* longer single segments: six words over six seconds, two words at an
\* instant, sixteen words over three seconds
SixWords == <<"a", " ", "b", " ", "c", " ", "d", " ", "e", " ", "f">>

HelloWorld == <<"h", "e", "l", "l", "o", " ", "w", "o", "r", "l", "d">>

SixteenWords ==
    <<"a", " ", "a", " ", "a", " ", "a", " ", "a", " ", "a", " ", "a", " ",
      "a", " ", "a", " ", "a", " ", "a", " ", "a", " ", "a", " ", "a", " ",
      "a", " ", "a">>

SegmentSix == [start |-> 0, end |-> 6, text |-> SixWords]

SegmentInstant == [start |-> 5, end |-> 5, text |-> HelloWorld]

SegmentSixteen == [start |-> 0, end |-> 3, text |-> SixteenWords]

WorkedSegments == {SegmentSix, SegmentInstant, SegmentSixteen}

\* the segments that may follow segs
NextSegments(segs) ==
    {g \in SegmentsFrom(IF segs = <<>> THEN 0 ELSE segs[Len(segs)].end,
                        MaxTextLen - TotalTextLen(segs)) : g.start <= g.end}
        \cup (IF segs = <<>> THEN WorkedSegments ELSE {})

(***************************************************************************)
(* backend/schemas.py                                                      *)
(***************************************************************************)
HttpPrefix == <<"h", "t", "t", "p", ":", "/", "/">>

\* HttpUrl: an http scheme followed by a host
IsHttpUrl(s) ==
    /\ Len(s) > Len(HttpPrefix)
    /\ SubSeq(s, 1, Len(HttpPrefix)) = HttpPrefix

\* TranscriptionRequest: video_url is validated, start_time and end_time are
\* plain str fields (any string is accepted), the flags are booleans
TranscriptionRequestAccepts(raw) == IsHttpUrl(raw.video_url)

\* TranscriptionResponse(**data): the fields of the response model; keys of
\* data that are no field of it (analysis_seconds) are dropped
ResponseTimingFields ==
    {"download_seconds", "transcription_seconds", "total_seconds"}

TranscriptionResponse(data) ==
    [data EXCEPT !.timings = data.timings \cap ResponseTimingFields]

(***************************************************************************)
(* Request inputs.                                                         *)
(***************************************************************************)
TimeAlphabet == {"1", "-"}

TimeStrings == UNION {[1..k -> TimeAlphabet] : k \in 0..MaxTimeStr}

UrlA == HttpPrefix \o <<"a">>
UrlB == HttpPrefix \o <<"b">>
Urls == {UrlA, UrlB}

MakeRequest(u, s, e, g, as, ap, aw, at) ==
    [video_url |-> u, start_time |-> s, end_time |-> e, generate_srt |-> g,
     analyze_sentiment |-> as, analyze_pos |-> ap,
     analyze_word_frequency |-> aw, analyze_topic |-> at]

Requests ==
    {MakeRequest(u, s, e, g, as, ap, aw, at) :
        u \in Urls, s \in TimeStrings, e \in TimeStrings, g \in BOOLEAN,
        as \in BOOLEAN, ap \in BOOLEAN, aw \in BOOLEAN, at \in BOOLEAN}

\* the schema's defaults: generate_srt=True, every analysis flag False
DefaultFlagRequests ==
    {MakeRequest(u, s, e, TRUE, FALSE, FALSE, FALSE, FALSE) :
        u \in Urls, s \in TimeStrings, e \in TimeStrings}

FlagNames == {"generate_srt", "analyze_sentiment", "analyze_pos",
              "analyze_word_frequency", "analyze_topic"}

AnalysisFlags == {"analyze_sentiment", "analyze_pos",
                  "analyze_word_frequency", "analyze_topic"}

FlipFlag(req, f) == [req EXCEPT ![f] = ~req[f]]

\* pairs of requests: one flag flipped, or any two requests with default flags
KeyInputs ==
    {<<a, FlipFlag(a, f)>> : a \in Requests, f \in FlagNames}
        \cup (DefaultFlagRequests \X DefaultFlagRequests)

(***************************************************************************)
(* backend/main.py: the cache key                                          *)
(***************************************************************************)
\* str(bool)
BoolStr(b) == IF b THEN <<"T", "r", "u", "e">> ELSE <<"F", "a", "l", "s", "e">>

KeyPrefix ==
    <<"t", "r", "a", "n", "s", "c", "r", "i", "p", "t", "i", "o", "n", ":">>

\* the key without its last field
CacheKeyWithoutTopic(req) ==
    KeyPrefix \o req.video_url \o <<":">>
        \o req.start_time \o <<"-">> \o req.end_time \o <<":">>
        \o BoolStr(req.generate_srt) \o <<":">>
        \o BoolStr(req.analyze_sentiment) \o <<":">>
        \o BoolStr(req.analyze_pos) \o <<":">>
        \o BoolStr(req.analyze_word_frequency)

\* f"transcription:{video_url}:{start_time}-{end_time}:{generate_srt}:..."
CacheKey(req) ==
    KeyPrefix \o req.video_url \o <<":">>
        \o req.start_time \o <<"-">> \o req.end_time \o <<":">>
        \o BoolStr(req.generate_srt) \o <<":">>
        \o BoolStr(req.analyze_sentiment) \o <<":">>
        \o BoolStr(req.analyze_pos) \o <<":">>
        \o BoolStr(req.analyze_word_frequency) \o <<":">>
        \o BoolStr(req.analyze_topic)

(***************************************************************************)
(* backend/main.py: values built by the handler                            *)
(***************************************************************************)
\* str.strip()
RECURSIVE LStrip(_)
LStrip(t) == IF t # <<>> /\ Head(t) = " " THEN LStrip(Tail(t)) ELSE t

RECURSIVE RStrip(_)
RStrip(t) ==
    IF t # <<>> /\ t[Len(t)] = " " THEN RStrip(SubSeq(t, 1, Len(t) - 1)) ELSE t

Strip(t) == RStrip(LStrip(t))

\* result.get("text", "").strip()
TranscriptionText(res) == Strip(res.text)

\* if request.generate_srt: segments = result.get("segments"); if segments: ...
SrtOutput(req, res) ==
    IF req.generate_srt /\ res.segments # NoneV /\ res.segments[1] # <<>>
    THEN Some(segments_to_srt_custom_lines(res.segments[1]))
    ELSE NoneV

\* each fragment is set when the text is non-empty and its flag is set
AnalysisResultsOf(req, res) ==
    [f \in AnalysisFlags |->
        IF TranscriptionText(res) # <<>> /\ req[f] THEN Some("stub") ELSE NoneV]

AnyAnalysisFlag(req) == \E f \in AnalysisFlags : req[f]

\* the analyzers ran ("performed")
AnalysisPerformed(req, res) ==
    TranscriptionText(res) # <<>> /\ AnyAnalysisFlag(req)

\* the container only when an analyzer ran
AnalysisFieldIfPerformed(req, res) ==
    IF AnalysisPerformed(req, res) THEN Some(AnalysisResultsOf(req, res))
    ELSE NoneV

\* "analysis": analysis_results if any([...four flags...]) else None
AnalysisField(req, res) ==
    IF AnyAnalysisFlag(req) THEN Some(AnalysisResultsOf(req, res)) ELSE NoneV

\* the response_data dict
BuildResponseData(req, res) ==
    [message |-> "Processing successful.",
     transcription |-> TranscriptionText(res),
     srt_transcription |-> SrtOutput(req, res),
     analysis |-> AnalysisField(req, res),
     original_url |-> req.video_url,
     time_range |-> req.start_time \o <<" ", "-", " ">> \o req.end_time,
     timings |-> {"download_seconds", "transcription_seconds",
                  "analysis_seconds", "total_seconds"}]

\* json.dumps(response_data) raises TypeError on an AnalysisResults object,
\* and on a video_url that is no str
JsonDumpsFails(data, urlIsStr) == data.analysis # NoneV \/ ~urlIsStr

JsonDumps(data) == [kind |-> "json", data |-> Some(data)]

MalformedPayload == [kind |-> "malformed", data |-> NoneV]

\* json.loads(cached) followed by TranscriptionResponse(**data) raises
LoadFails(payload) == payload.kind # "json"

NoExc == [type |-> "none", status |-> 0, detail |-> ""]
HttpExc(status, detail) ==
    [type |-> "HTTPException", status |-> status, detail |-> detail]
OtherExc == [type |-> "Exception", status |-> 0, detail |-> ""]

NoOutcome == [status |-> 0, detail |-> "", body |-> NoneV]
ErrorOutcome(status, detail) ==
    [status |-> status, detail |-> detail, body |-> NoneV]
OkOutcome(data) ==
    [status |-> 200, detail |-> "", body |-> Some(TranscriptionResponse(data))]

\* cleanup_temp_folder on the working directory of request i
DirExists(ds, i) == ds[i] \in {"empty", "audio"}

CleanupDir(ds, i) ==
    IF DirExists(ds, i) THEN [ds EXCEPT ![i] = "removed"] ELSE ds

(***************************************************************************)
(* Inputs of the request handler and results of its collaborators.         *)
(***************************************************************************)
BadUrl == <<"a">>

\* start and end given as seconds: "1" to "11", and "11" to "1"
HandlerRanges == {<< <<"1">>, <<"1", "1">> >>, << <<"1", "1">>, <<"1">> >>}

\* the requests sent to the handler: a good or a bad URL, one of the two
\* ranges, any analyze_sentiment and analyze_topic, the other flags left at
\* the schema's defaults
HandlerInputs ==
    {MakeRequest(u, se[1], se[2], TRUE, as, FALSE, FALSE, at) :
        u \in {UrlA, BadUrl}, se \in HandlerRanges,
        as \in BOOLEAN, at \in BOOLEAN}

FourWords == <<" ", "a", " ", "a", " ", "a", " ", "a">>

\* no speech (segments absent or empty), or one segment of four words
TranscriberResults ==
    {[text |-> <<" ">>, segments |-> NoneV],
     [text |-> <<" ">>, segments |-> Some(<<>>)],
     [text |-> FourWords,
      segments |-> Some(<<[start |-> 0, end |-> 1, text |-> FourWords]>>)]}

ReqIds == 1..MaxRequests

(***************************************************************************)
(* backend/main.py: startup_event and create_transcription_request         *)
(***************************************************************************)
PipeInit ==
    /\ started = FALSE
    /\ url_is_str \in BOOLEAN
    /\ whisper_model = FALSE
    /\ redis_client = FALSE
    /\ cache = [k \in {} |-> MalformedPayload]
    /\ peer = NoneV
    /\ nreq = 0
    /\ pc = "idle"
    /\ request = NoneV
    /\ r_client = FALSE
    /\ cache_key = NoneV
    /\ result = NoneV
    /\ response_data = NoneV
    /\ exc = NoExc
    /\ outcome = NoOutcome
    /\ events = {}
    /\ dirs = [i \in ReqIds |-> "none"]
    /\ cleanups = [i \in ReqIds |-> 0]
    /\ tasks = {}

\* startup_event: the model loads or not, Redis answers the ping or not
Startup ==
    /\ ~started
    /\ started' = TRUE
    /\ whisper_model' \in BOOLEAN
    /\ redis_client' \in BOOLEAN
    /\ UNCHANGED <<url_is_str, cache, peer, nreq, pc, request, r_client,
                   cache_key, result, response_data, exc, outcome, events,
                   dirs, cleanups, tasks>>
    /\ UNCHANGED <<split_vars, key_vars>>

\* a request arrives and the framework validates it against the schema
ReceiveWith(raw, accepted) ==
    /\ started
    /\ pc = "idle"
    /\ nreq < MaxRequests
    /\ nreq' = nreq + 1
    /\ request' = raw
    /\ r_client' = redis_client
    /\ cache_key' = NoneV
    /\ result' = NoneV
    /\ response_data' = NoneV
    /\ exc' = NoExc
    /\ events' = {}
    /\ IF accepted
       THEN outcome' = NoOutcome /\ pc' = "cache_check"
       ELSE outcome' = ErrorOutcome(422, "validation error") /\ pc' = "idle"
    /\ UNCHANGED <<started, url_is_str, whisper_model, redis_client, cache,
                   peer, dirs, cleanups, tasks>>
    /\ UNCHANGED <<split_vars, key_vars>>

Receive(raw) == ReceiveWith(raw, TranscriptionRequestAccepts(raw))

handler_frame == <<started, url_is_str, whisper_model, redis_client, nreq,
                   request, peer>>

\* if r_client: ... (no cache handle: the cache is not consulted)
CacheSkip ==
    /\ pc = "cache_check"
    /\ ~r_client
    /\ pc' = "model_check"
    /\ UNCHANGED <<handler_frame, cache, r_client, cache_key, result,
                   response_data, exc, outcome, events, dirs, cleanups, tasks>>
    /\ UNCHANGED <<split_vars, key_vars>>

\* the except clause clearing the global handle instead of the local one
CacheGetErrorClearsGlobal ==
    /\ pc = "cache_check"
    /\ r_client
    /\ cache_key' = Some(CacheKey(request))
    /\ r_client' = FALSE
    /\ redis_client' = FALSE
    /\ events' = events \cup {"cache_get", "cache_get_error"}
    /\ pc' = "model_check"
    /\ UNCHANGED <<started, url_is_str, whisper_model, nreq, request, peer,
                   cache, result, response_data, exc, outcome, dirs, cleanups,
                   tasks>>
    /\ UNCHANGED <<split_vars, key_vars>>

\* r_client.get raises: except ...: r_client = None
CacheGetError ==
    /\ pc = "cache_check"
    /\ r_client
    /\ cache_key' = Some(CacheKey(request))
    /\ r_client' = FALSE
    /\ events' = events \cup {"cache_get", "cache_get_error"}
    /\ pc' = "model_check"
    /\ UNCHANGED <<handler_frame, cache, result, response_data, exc, outcome,
                   dirs, cleanups, tasks>>
    /\ UNCHANGED <<split_vars, key_vars>>

\* a hit that goes on to the model check instead of returning
AfterCacheHitFallThrough == "model_check"

\* the position after a cache hit whose payload loads: return
AfterCacheHit == "idle"

\* r_client.get answers: hit (return the entry), unreadable payload, or miss
CacheGet ==
    /\ pc = "cache_check"
    /\ r_client
    /\ cache_key' = Some(CacheKey(request))
    /\ LET key == CacheKey(request)
       IN  IF key \in DOMAIN cache
           THEN IF LoadFails(cache[key])
                THEN /\ r_client' = FALSE
                     /\ events' = events \cup {"cache_get", "cache_payload_error"}
                     /\ pc' = "model_check"
                     /\ UNCHANGED outcome
                ELSE /\ outcome' = OkOutcome(cache[key].data[1])
                     /\ events' = events \cup {"cache_get", "cache_hit"}
                     /\ pc' = AfterCacheHit
                     /\ UNCHANGED r_client
           ELSE /\ events' = events \cup {"cache_get"}
                /\ pc' = "model_check"
                /\ UNCHANGED <<r_client, outcome>>
    /\ UNCHANGED <<handler_frame, cache, result, response_data, exc, dirs,
                   cleanups, tasks>>
    /\ UNCHANGED <<split_vars, key_vars>>

\* the handler without the check of the model
EnsureModelUnchecked ==
    /\ pc = "model_check"
    /\ pc' = "mkdir"
    /\ UNCHANGED <<handler_frame, cache, r_client, cache_key, result,
                   response_data, exc, outcome, events, dirs, cleanups, tasks>>
    /\ UNCHANGED <<split_vars, key_vars>>

\* if whisper_model is None: raise HTTPException(503)
EnsureModel ==
    /\ pc = "model_check"
    /\ IF whisper_model
       THEN pc' = "mkdir" /\ UNCHANGED outcome
       ELSE pc' = "idle" /\ outcome' = ErrorOutcome(503, "Model not loaded.")
    /\ UNCHANGED <<handler_frame, cache, r_client, cache_key, result,
                   response_data, exc, events, dirs, cleanups, tasks>>
    /\ UNCHANGED <<split_vars, key_vars>>

\* output_dir.mkdir(parents=True, exist_ok=True)
PrepareDir ==
    /\ pc = "mkdir"
    /\ dirs' = [dirs EXCEPT ![nreq] = "empty"]
    /\ events' = events \cup {"mkdir"}
    /\ pc' = "download"
    /\ UNCHANGED <<handler_frame, cache, r_client, cache_key, result,
                   response_data, exc, outcome, cleanups, tasks>>
    /\ UNCHANGED <<split_vars, key_vars>>

\* ydl.download: returns 0, returns another code, or raises; it may or may
\* not have left an audio.* file
Download(how, file) ==
    /\ pc = "download"
    /\ events' = events \cup {"fetch", how}
    /\ dirs' = IF file THEN [dirs EXCEPT ![nreq] = "audio"] ELSE dirs
    /\ CASE how = "fetch_ok" -> pc' = "glob" /\ UNCHANGED exc
         [] how = "fetch_nonzero" ->
                pc' = "except" /\ exc' = HttpExc(500, "Download failed.")
         [] how = "fetch_raised" -> pc' = "except" /\ exc' = OtherExc
    /\ UNCHANGED <<handler_frame, cache, r_client, cache_key, result,
                   response_data, outcome, cleanups, tasks>>
    /\ UNCHANGED <<split_vars, key_vars>>

\* files = list(output_dir.glob("audio.*")); if not files: raise
ListFiles ==
    /\ pc = "glob"
    /\ IF dirs[nreq] = "audio"
       THEN pc' = "transcribe" /\ UNCHANGED <<exc, events>>
       ELSE /\ pc' = "except"
            /\ exc' = HttpExc(500, "Audio file not found.")
            /\ events' = events \cup {"no_file"}
    /\ UNCHANGED <<handler_frame, cache, r_client, cache_key, result,
                   response_data, outcome, dirs, cleanups, tasks>>
    /\ UNCHANGED <<split_vars, key_vars>>

\* whisper_model.transcribe returns a result
Transcribe(res) ==
    /\ pc = "transcribe"
    /\ result' = Some(res)
    /\ events' = events \cup {"transcribe"}
    /\ pc' = "assemble"
    /\ UNCHANGED <<handler_frame, cache, r_client, cache_key, response_data,
                   exc, outcome, dirs, cleanups, tasks>>
    /\ UNCHANGED <<split_vars, key_vars>>

\* whisper_model.transcribe raises
TranscribeError ==
    /\ pc = "transcribe"
    /\ exc' = OtherExc
    /\ events' = events \cup {"transcribe", "transcribe_raised"}
    /\ pc' = "except"
    /\ UNCHANGED <<handler_frame, cache, r_client, cache_key, result,
                   response_data, outcome, dirs, cleanups, tasks>>
    /\ UNCHANGED <<split_vars, key_vars>>

\* SRT, analysis and the response_data dict
Assemble ==
    /\ pc = "assemble"
    /\ response_data' = Some(BuildResponseData(request, result[1]))
    /\ pc' = "cache_store"
    /\ UNCHANGED <<handler_frame, cache, r_client, cache_key, result, exc,
                   outcome, events, dirs, cleanups, tasks>>
    /\ UNCHANGED <<split_vars, key_vars>>

\* any other exception raised while the result is post-processed
UnexpectedFault ==
    /\ pc = "assemble"
    /\ exc' = OtherExc
    /\ events' = events \cup {"unexpected_fault"}
    /\ pc' = "except"
    /\ UNCHANGED <<handler_frame, cache, r_client, cache_key, result,
                   response_data, outcome, dirs, cleanups, tasks>>
    /\ UNCHANGED <<split_vars, key_vars>>

\* a failed setex that reaches the outer except clauses
AfterSetErrorEscalates == "except"

\* the position after a failed setex: the except clause logs and goes on
AfterSetError == "schedule"

\* if r_client and cache_key: try: r_client.setex(key, TTL, json.dumps(...))
\* except Exception: print a warning
CacheStore(setex_ok) ==
    /\ pc = "cache_store"
    /\ IF r_client /\ cache_key # NoneV
       THEN IF JsonDumpsFails(response_data[1], url_is_str)
            THEN /\ events' = events \cup {"dumps_error"}
                 /\ pc' = AfterSetError
                 /\ UNCHANGED <<cache, exc>>
            ELSE IF setex_ok
                 THEN /\ cache' = [k \in DOMAIN cache \cup {cache_key[1]} |->
                                     IF k = cache_key[1]
                                     THEN JsonDumps(response_data[1])
                                     ELSE cache[k]]
                      /\ events' = events \cup {"cache_set"}
                      /\ pc' = "schedule"
                      /\ UNCHANGED exc
                 ELSE /\ events' = events \cup {"cache_set", "cache_set_error"}
                      /\ pc' = AfterSetError
                      /\ exc' = IF AfterSetError = "except"
                                THEN OtherExc ELSE exc
                      /\ UNCHANGED cache
       ELSE /\ pc' = "schedule"
            /\ UNCHANGED <<cache, events, exc>>
    /\ UNCHANGED <<handler_frame, r_client, cache_key, result, response_data,
                   outcome, dirs, cleanups, tasks>>
    /\ UNCHANGED <<split_vars, key_vars>>

\* the success path without add_task
ScheduleCleanupSkipped ==
    /\ pc = "schedule"
    /\ pc' = "return"
    /\ UNCHANGED <<handler_frame, cache, r_client, cache_key, result,
                   response_data, exc, outcome, events, dirs, cleanups, tasks>>
    /\ UNCHANGED <<split_vars, key_vars>>

\* background_tasks.add_task(cleanup_temp_folder, output_dir)
ScheduleCleanup ==
    /\ pc = "schedule"
    /\ tasks' = tasks \cup {nreq}
    /\ events' = events \cup {"schedule"}
    /\ pc' = "return"
    /\ UNCHANGED <<handler_frame, cache, r_client, cache_key, result,
                   response_data, exc, outcome, dirs, cleanups>>
    /\ UNCHANGED <<split_vars, key_vars>>

\* return TranscriptionResponse(**response_data)
Return ==
    /\ pc = "return"
    /\ outcome' = OkOutcome(response_data[1])
    /\ pc' = "idle"
    /\ UNCHANGED <<handler_frame, cache, r_client, cache_key, result,
                   response_data, exc, events, dirs, cleanups, tasks>>
    /\ UNCHANGED <<split_vars, key_vars>>

\* the error the except clauses raise to the caller
RaisedOutcome(e) ==
    IF e.type = "HTTPException" THEN ErrorOutcome(e.status, e.detail)
    ELSE ErrorOutcome(500, "Unexpected processing error.")

\* except clauses that raise without calling cleanup_temp_folder
HandleExceptWithoutCleanup ==
    /\ pc = "except"
    /\ outcome' = RaisedOutcome(exc)
    /\ pc' = "idle"
    /\ UNCHANGED <<handler_frame, cache, r_client, cache_key, result,
                   response_data, exc, events, dirs, cleanups, tasks>>
    /\ UNCHANGED <<split_vars, key_vars>>

\* except HTTPException: cleanup; raise
\* except Exception: cleanup; raise HTTPException(500)
HandleExcept ==
    /\ pc = "except"
    /\ dirs' = CleanupDir(dirs, nreq)
    /\ cleanups' = [cleanups EXCEPT ![nreq] = @ + 1]
    /\ events' = events \cup {"cleanup_sync"}
    /\ outcome' = RaisedOutcome(exc)
    /\ pc' = "idle"
    /\ UNCHANGED <<handler_frame, cache, r_client, cache_key, result,
                   response_data, exc, tasks>>
    /\ UNCHANGED <<split_vars, key_vars>>

\* a task that may run as soon as it is added
RespondedAtOnce(i) == TRUE

\* the response of request i has been sent
Responded(i) == i < nreq \/ (i = nreq /\ pc = "idle")

\* the framework runs the background task of request i after its response
RunTask(i) ==
    /\ i \in tasks
    /\ Responded(i)
    /\ dirs' = CleanupDir(dirs, i)
    /\ cleanups' = [cleanups EXCEPT ![i] = @ + 1]
    /\ tasks' = tasks \ {i}
    /\ UNCHANGED <<handler_frame, cache, pc, r_client, cache_key, result,
                   response_data, exc, outcome, events>>
    /\ UNCHANGED <<split_vars, key_vars>>

\* Redis drops an entry whose TTL has run out.  (Between two handlers: the
\* handler runs without yielding, and reads the store once.)
CacheExpire(k) ==
    /\ pc = "idle"
    /\ k \in DOMAIN cache
    /\ cache' = [x \in DOMAIN cache \ {k} |-> cache[x]]
    /\ UNCHANGED <<handler_frame, pc, r_client, cache_key, result,
                   response_data, exc, outcome, events, dirs, cleanups, tasks>>
    /\ UNCHANGED <<split_vars, key_vars>>

\* another writer leaves a payload under k that does not load
CacheCorrupt(k) ==
    /\ pc = "idle"
    /\ k \in DOMAIN cache
    /\ cache[k] # MalformedPayload
    /\ cache' = [cache EXCEPT ![k] = MalformedPayload]
    /\ UNCHANGED <<handler_frame, pc, r_client, cache_key, result,
                   response_data, exc, outcome, events, dirs, cleanups, tasks>>
    /\ UNCHANGED <<split_vars, key_vars>>

\* The application run as a second worker process on the same Redis store
\* (its handler is the same code).  Of its requests the model keeps the two
\* steps that touch the store: the get that misses, and the setex of the
\* result; its model is loaded, its fetcher and transcriber succeed.
PeerInputs ==
    {MakeRequest(UrlA, <<"1">>, <<"1", "1">>, TRUE, FALSE, FALSE, FALSE, FALSE)}

PeerResult ==
    [text |-> FourWords,
     segments |-> Some(<<[start |-> 0, end |-> 1, text |-> FourWords]>>)]

peer_frame == <<started, url_is_str, whisper_model, redis_client, nreq, pc,
                request, r_client, cache_key, result, response_data, exc,
                outcome, events, dirs, cleanups, tasks>>

\* the peer's r_client.get(cache_key) misses
PeerGet(req) ==
    /\ started
    /\ peer = NoneV
    /\ CacheKey(req) \notin DOMAIN cache
    /\ peer' = Some(req)
    /\ UNCHANGED <<peer_frame, cache>>
    /\ UNCHANGED <<split_vars, key_vars>>

\* the peer's r_client.setex(cache_key, TTL, json.dumps(response_data))
PeerStore ==
    /\ peer # NoneV
    /\ peer' = NoneV
    /\ LET key == CacheKey(peer[1])
           data == BuildResponseData(peer[1], PeerResult)
       IN  cache' = IF JsonDumpsFails(data, url_is_str) THEN cache
                    ELSE [k \in DOMAIN cache \cup {key} |->
                             IF k = key THEN JsonDumps(data) ELSE cache[k]]
    /\ UNCHANGED peer_frame
    /\ UNCHANGED <<split_vars, key_vars>>

HarnessIdle ==
    /\ segments = <<>>
    /\ srt_lines = NoneV
    /\ key_reqs = NoneV
    /\ key_out = NoneV

Init == HarnessIdle /\ PipeInit

Next ==
    \/ Startup
    \/ \E raw \in HandlerInputs : Receive(raw)
    \/ CacheSkip
    \/ CacheGetError
    \/ CacheGet
    \/ EnsureModel
    \/ PrepareDir
    \/ \E how \in {"fetch_ok", "fetch_nonzero", "fetch_raised"} :
           \E file \in BOOLEAN : Download(how, file)
    \/ ListFiles
    \/ \E res \in TranscriberResults : Transcribe(res)
    \/ TranscribeError
    \/ Assemble
    \/ UnexpectedFault
    \/ \E ok \in BOOLEAN : CacheStore(ok)
    \/ ScheduleCleanup
    \/ Return
    \/ HandleExcept
    \/ \E i \in ReqIds : RunTask(i)
    \/ \E k \in DOMAIN cache : CacheExpire(k)
    \/ \E k \in DOMAIN cache : CacheCorrupt(k)

Spec == Init /\ [][Next]_vars

\* the framework runs every background task it was given
FairSpec == Spec /\ \A i \in ReqIds : WF_vars(RunTask(i))

\* the worker together with a second worker process on the same Redis store
PeerNext ==
    \/ \E req \in PeerInputs : PeerGet(req)
    \/ PeerStore

SharedNext == Next \/ PeerNext

SharedSpec == Init /\ [][SharedNext]_vars

(***************************************************************************)
(* The caption splitter applied to every segment list within the bounds.   *)
(***************************************************************************)
PipeIdle == PipeInit /\ url_is_str

SplitInit ==
    /\ segments = <<>>
    /\ srt_lines = NoneV
    /\ key_reqs = NoneV
    /\ key_out = NoneV
    /\ PipeIdle

\* the transcriber's result grows by one segment
AddSegment(seg) ==
    /\ srt_lines = NoneV
    /\ Len(segments) < MaxSegments
    /\ segments' = Append(segments, seg)
    /\ UNCHANGED <<srt_lines, key_vars, pipe_vars>>

SplitApply ==
    /\ srt_lines = NoneV
    /\ srt_lines' = Some(segments_to_srt_custom_lines(segments))
    /\ UNCHANGED <<segments, key_vars, pipe_vars>>

SplitNext ==
    \/ \E seg \in NextSegments(segments) : AddSegment(seg)
    \/ SplitApply

SplitSpec == SplitInit /\ [][SplitNext]_vars

(***************************************************************************)
(* The cache key derived for pairs of requests.                            *)
(***************************************************************************)
KeyInit ==
    /\ key_reqs \in KeyInputs
    /\ key_out = NoneV
    /\ segments = <<>>
    /\ srt_lines = NoneV
    /\ PipeIdle

KeyApply ==
    /\ key_out = NoneV
    /\ key_out' = <<CacheKey(key_reqs[1]), CacheKey(key_reqs[2])>>
    /\ UNCHANGED <<key_reqs, split_vars, pipe_vars>>

KeyNext == KeyApply

KeySpec == KeyInit /\ [][KeyNext]_vars

(***************************************************************************)
(* Properties.                                                             *)
(***************************************************************************)
Lines == srt_lines[1]

\* C1: no caption line has fewer words than the minimum unless it is the
\* only line of its segment (it holds all the segment's words).
C1_NoShortLine ==
    srt_lines # NoneV =>
        \A i \in DOMAIN Lines :
            Len(Lines[i].words) < min_words_per_line
                => Len(Lines[i].words) = Lines[i].den

\* C2: two requests that differ in a field get different cache keys.
C2_KeysUnique ==
    key_out # NoneV =>
        (key_reqs[1] # key_reqs[2] => key_out[1] # key_out[2])

\* C3: two requests that differ in exactly one analysis flag and in nothing
\* else get different cache keys.
C3_AnalysisFlagChangesKey ==
    key_out # NoneV =>
        \A f \in AnalysisFlags :
            key_reqs[2] = FlipFlag(key_reqs[1], f) => key_out[1] # key_out[2]

C3_Witness ==
    /\ key_out # NoneV
    /\ key_reqs[2] = FlipFlag(key_reqs[1], "analyze_topic")
    /\ key_reqs[1].analyze_sentiment
    /\ key_out[1] # key_out[2]

\* C8: every caption line starts no earlier than its segment and ends no
\* later than it (both sides over the line's denominator, in microseconds).
C8_LineWithinSegment ==
    srt_lines # NoneV =>
        \A i \in DOMAIN Lines :
            LET l == Lines[i]
            IN  /\ l.seg.start * MicrosPerSecond * l.den <= l.start
                /\ l.end <= l.seg.end * MicrosPerSecond * l.den

\* the last line of a four-word segment of positive duration: it starts
\* inside the segment and its end is clamped to the segment's end
C8_Witness ==
    /\ srt_lines # NoneV
    /\ \E i \in DOMAIN Lines :
           /\ Lines[i].seg.start < Lines[i].seg.end
           /\ Len(Lines[i].words) < Lines[i].den
           /\ Lines[i].start > Lines[i].seg.start * MicrosPerSecond * Lines[i].den
           /\ Lines[i].end = Lines[i].seg.end * MicrosPerSecond * Lines[i].den

\* the running or last request has been answered
Answered == nreq >= 1 /\ pc = "idle"

\* a request answered from the cache did nothing else: no working directory,
\* no fetch, no transcription, no cache store, no cleanup scheduled or run
C4_NoWorkOnHit ==
    "cache_hit" \in events =>
        /\ pc = "idle"
        /\ outcome.status = 200
        /\ events = {"cache_get", "cache_hit"}
        /\ dirs[nreq] = "none"
        /\ cleanups[nreq] = 0
        /\ nreq \notin tasks

\* the handler's step that reads the cache: when the store holds a loadable
\* entry under the request's key and the read does not fail, the entry is
\* returned
C4_HitStep ==
    (/\ pc = "cache_check"
     /\ pc' # "cache_check"
     /\ r_client
     /\ CacheKey(request) \in DOMAIN cache
     /\ ~LoadFails(cache[CacheKey(request)])
     /\ "cache_get_error" \notin events')
        => /\ "cache_hit" \in events'
           /\ pc' = "idle"
           /\ outcome' = OkOutcome(cache[CacheKey(request)].data[1])

\* C4: a cache hit short-circuits: the loadable entry under the request's
\* key is what the caller gets, and the hit does no further work.
C4_CacheHitShortCircuits == [](C4_NoWorkOnHit) /\ [][C4_HitStep]_vars

C4_Witness ==
    /\ Answered
    /\ "cache_hit" \in events
    /\ whisper_model
    /\ outcome.status = 200
    /\ outcome.body[1].original_url = request.video_url

\* the cleanups of request i's directory, run or still scheduled
CleanupsDue(i) == cleanups[i] + (IF i \in tasks THEN 1 ELSE 0)

C5_AtMostOnce ==
    \A i \in ReqIds :
        /\ cleanups[i] <= 1
        /\ (Responded(i) /\ dirs[i] # "none") => CleanupsDue(i) = 1

\* C5: every answered request that allocated a working directory gets its
\* cleanup run, and run exactly once.
C5_CleanupExactlyOnce ==
    /\ [](C5_AtMostOnce)
    /\ \A i \in ReqIds :
           (Responded(i) /\ dirs[i] # "none")
               ~> (cleanups[i] = 1 /\ i \notin tasks /\ dirs[i] = "removed")

\* a successful request whose scheduled cleanup has run
C5_Witness ==
    /\ Answered
    /\ outcome.status = 200
    /\ "schedule" \in events
    /\ cleanups[nreq] = 1
    /\ dirs[nreq] = "removed"

\* C6: when an error is returned for a request that allocated its working
\* directory, the directory no longer exists.
C6_ErrorRemovesDir ==
    (Answered /\ outcome.status >= 400 /\ "mkdir" \in events)
        => dirs[nreq] = "removed"

\* the fetcher reported failure after leaving a file behind
C6_Witness ==
    /\ Answered
    /\ outcome = ErrorOutcome(500, "Download failed.")
    /\ "fetch_nonzero" \in events
    /\ dirs[nreq] = "removed"
    /\ cleanups[nreq] = 1

\* C7: an assembled response carries the analysis container exactly when
\* one of the request's analysis flags is set.
C7_AnalysisIffFlag ==
    (Answered /\ outcome.status = 200 /\ "cache_hit" \notin events)
        => (outcome.body[1].analysis # NoneV <=> AnyAnalysisFlag(request))

\* a flag is set, the transcription is empty, the container is there
C7_Witness ==
    /\ Answered
    /\ outcome.status = 200
    /\ "cache_hit" \notin events
    /\ request.analyze_topic
    /\ outcome.body[1].transcription = <<>>
    /\ outcome.body[1].analysis # NoneV
    /\ outcome.body[1].analysis[1]["analyze_topic"] = NoneV

\* a time given as seconds: decimal digits only
Digits == {"0", "1", "2", "3", "4", "5", "6", "7", "8", "9"}

DigitValue(c) ==
    CASE c = "0" -> 0 [] c = "1" -> 1 [] c = "2" -> 2 [] c = "3" -> 3
      [] c = "4" -> 4 [] c = "5" -> 5 [] c = "6" -> 6 [] c = "7" -> 7
      [] c = "8" -> 8 [] c = "9" -> 9

IsSeconds(t) == t # <<>> /\ \A i \in DOMAIN t : t[i] \in Digits

RECURSIVE SecondsValue(_)
SecondsValue(t) ==
    IF t = <<>> THEN 0
    ELSE 10 * SecondsValue(SubSeq(t, 1, Len(t) - 1)) + DigitValue(t[Len(t)])

ValidTimeRange(req) ==
    /\ IsSeconds(req.start_time)
    /\ IsSeconds(req.end_time)
    /\ SecondsValue(req.start_time) < SecondsValue(req.end_time)

\* C9: a request whose time range is malformed, or whose end does not follow
\* its start, gets no working directory and reaches neither the cache, the
\* fetcher nor the transcriber.
C9_BadRangeRejected ==
    (nreq >= 1 /\ ~ValidTimeRange(request))
        => /\ dirs[nreq] = "none"
           /\ events \cap {"cache_get", "mkdir", "fetch", "transcribe"} = {}

\* what the caller gets when no cache is configured
NoCacheOutcome ==
    IF ~whisper_model THEN ErrorOutcome(503, "Model not loaded.")
    ELSE IF "fetch_nonzero" \in events
         THEN ErrorOutcome(500, "Download failed.")
    ELSE IF "fetch_raised" \in events
         THEN ErrorOutcome(500, "Unexpected processing error.")
    ELSE IF "no_file" \in events
         THEN ErrorOutcome(500, "Audio file not found.")
    ELSE IF events \cap {"transcribe_raised", "unexpected_fault"} # {}
         THEN ErrorOutcome(500, "Unexpected processing error.")
    ELSE OkOutcome(BuildResponseData(request, result[1]))

CacheGetFailed == events \cap {"cache_get_error", "cache_payload_error"} # {}
CacheSetFailed == events \cap {"cache_set_error", "dumps_error"} # {}

\* C10: a request that met a failing cache get or cache set is answered as
\* it would be with no cache, and a failing set leaves it on the success
\* path: answered 200, cleanup scheduled, no cleanup in the error handler.
C10_CacheFailureNotSurfaced ==
    /\ (Answered /\ (CacheGetFailed \/ CacheSetFailed))
           => outcome = NoCacheOutcome
    /\ CacheSetFailed
           => /\ pc \in {"schedule", "return", "idle"}
              /\ "cleanup_sync" \notin events
              /\ exc = NoExc
              /\ pc = "idle" => (outcome.status = 200 /\ "schedule" \in events)

\* setex raised and the request was answered 200
C10_Witness ==
    /\ Answered
    /\ "cache_set_error" \in events
    /\ outcome.status = 200
    /\ outcome = NoCacheOutcome

\* the number of words taken by the lines before l in its segment, and after
\* l is added
LineI(l) == l.first
LineJ(l) == l.first + Len(l.words)

\* word_duration = (end - start) / n, as a numerator over n, in microseconds
WordDurationOverN(seg) == (seg.end - seg.start) * MicrosPerSecond

Stamp(h, m, sec, ms) ==
    [hours |-> h, minutes |-> m, seconds |-> sec, millis |-> ms]

\* C11: in a segment of positive duration with n words, the line of the words
\* [i, j) starts at segment.start + i * word_duration and ends at
\* min(segment.start + j * word_duration + epsilon, segment.end); the segment
\* from 0 to 6 with the text "a b c d e f" gives the two lines "a b c" from
\* 00:00:00,000 to 00:00:03,000 and "d e f" from 00:00:03,000 to 00:00:06,000.
C11_TimingFormula ==
    srt_lines # NoneV =>
        /\ \A k \in DOMAIN Lines :
               LET l == Lines[k]
                   n == Len(SplitWords(l.seg.text))
                   base == l.seg.start * MicrosPerSecond * n
               IN  l.seg.end > l.seg.start =>
                       /\ l.den = n
                       /\ l.start = base + LineI(l) * WordDurationOverN(l.seg)
                       /\ l.end = Min(base + LineJ(l) * WordDurationOverN(l.seg)
                                          + epsilon * n,
                                      l.seg.end * MicrosPerSecond * n)
        /\ segments = <<SegmentSix>> =>
               /\ Len(Lines) = 2
               /\ Lines[1].words = << <<"a">>, <<"b">>, <<"c">> >>
               /\ Lines[2].words = << <<"d">>, <<"e">>, <<"f">> >>
               /\ Lines[1].start = 0
               /\ Lines[2].start = 3 * MicrosPerSecond * 6
               /\ Lines[2].end = 6 * MicrosPerSecond * 6
               /\ Lines[1].start_str = Stamp(0, 0, 0, 0)
               /\ Lines[1].end_str = Stamp(0, 0, 3, 0)
               /\ Lines[2].start_str = Stamp(0, 0, 3, 0)
               /\ Lines[2].end_str = Stamp(0, 0, 6, 0)

\* the six-word segment split: the first line's end carries the epsilon
C11_Witness ==
    /\ srt_lines # NoneV
    /\ segments = <<SegmentSix>>
    /\ Len(Lines) = 2
    /\ Lines[1].end = (3 * MicrosPerSecond + epsilon) * 6
    /\ Lines[1].end_str = Stamp(0, 0, 3, 0)

\* C12: every line of a segment whose start equals its end starts and ends at
\* the segment's start; the segment from 5 to 5 with the text "hello world"
\* gives one line from 00:00:05,000 to 00:00:05,000.
C12_ZeroDuration ==
    srt_lines # NoneV =>
        /\ \A k \in DOMAIN Lines :
               LET l == Lines[k]
               IN  l.seg.start = l.seg.end =>
                       /\ l.start = l.seg.start * MicrosPerSecond * l.den
                       /\ l.end = l.start
                       /\ l.end_str = l.start_str
        /\ segments = <<SegmentInstant>> =>
               /\ Len(Lines) = 1
               /\ Lines[1].words = << <<"h", "e", "l", "l", "o">>,
                                      <<"w", "o", "r", "l", "d">> >>
               /\ Lines[1].start_str = Stamp(0, 0, 5, 0)
               /\ Lines[1].end_str = Stamp(0, 0, 5, 0)

C12_Witness ==
    /\ srt_lines # NoneV
    /\ segments = <<SegmentInstant>>
    /\ Len(Lines) = 1
    /\ Lines[1].start = 5 * MicrosPerSecond * 2
    /\ Lines[1].end = 5 * MicrosPerSecond * 2

\* a written timestamp, in milliseconds
TimestampMillis(ts) ==
    ts.hours * 3600000 + ts.minutes * 60000 + ts.seconds * 1000 + ts.millis

\* C13: in the written output every line ends no earlier than it starts, and
\* ends no later than the next line starts.
C13_NoOverlap ==
    srt_lines # NoneV =>
        /\ \A k \in DOMAIN Lines :
               TimestampMillis(Lines[k].start_str)
                   <= TimestampMillis(Lines[k].end_str)
        /\ \A k \in 1..(Len(Lines) - 1) :
               TimestampMillis(Lines[k].end_str)
                   <= TimestampMillis(Lines[k + 1].start_str)

RECURSIVE LineWordsFrom(_, _)
LineWordsFrom(ls, k) ==
    IF k > Len(ls) THEN <<>> ELSE ls[k].words \o LineWordsFrom(ls, k + 1)

RECURSIVE SegmentWordsFrom(_, _)
SegmentWordsFrom(segs, s) ==
    IF s > Len(segs) THEN <<>>
    ELSE SplitWords(segs[s].text) \o SegmentWordsFrom(segs, s + 1)

\* C19: the words of the lines, in line order, are the words of the segments
\* in their order; every line has from one to three words; the lines are
\* numbered 1, 2, ... without a gap.
C19_WordsPreserved ==
    srt_lines # NoneV =>
        /\ LineWordsFrom(Lines, 1) = SegmentWordsFrom(segments, 1)
        /\ \A k \in DOMAIN Lines :
               /\ Len(Lines[k].words) \in 1..target_words_per_line
               /\ Lines[k].index = k

\* two segments with words: the second one's line is numbered after the first
C19_Witness ==
    /\ srt_lines # NoneV
    /\ Len(segments) = 2
    /\ Len(Lines) = 2
    /\ Lines[1].seg = segments[1]
    /\ Lines[2].seg = segments[2]
    /\ Len(Lines[1].words) = 3
    /\ Lines[2].index = 2

\* on the success path, until the response is returned, the working
\* directory is there and no cleanup has run on it
C14_KeptWhileRunning ==
    pc \in {"schedule", "return"}
        => /\ DirExists(dirs, nreq)
           /\ cleanups[nreq] = 0
           /\ "cleanup_sync" \notin events

\* the step that returns the response leaves the directory in place, with
\* its cleanup scheduled
C14_ReturnStep ==
    (pc = "return" /\ pc' = "idle")
        => /\ outcome'.status = 200
           /\ DirExists(dirs', nreq)
           /\ cleanups'[nreq] = 0
           /\ nreq \in tasks'

\* a scheduled cleanup runs on a request that has been answered
C14_TaskStep ==
    \A i \in ReqIds :
        (i \in tasks /\ cleanups'[i] > cleanups[i])
            => (i < nreq \/ (i = nreq /\ pc = "idle"))

\* C14: on the success path the working directory exists when the response
\* is returned, and it is deleted only afterwards, by the scheduled task.
C14_DeletedAfterResponse ==
    /\ [](C14_KeptWhileRunning)
    /\ [][C14_ReturnStep]_vars
    /\ [][C14_TaskStep]_vars

\* the response has been returned and the directory is still there
C14_Witness ==
    /\ Answered
    /\ outcome.status = 200
    /\ "schedule" \in events
    /\ nreq \in tasks
    /\ dirs[nreq] = "audio"
    /\ cleanups[nreq] = 0

\* C15: a request that missed and completed with the cache available and a
\* key derived has its result stored under the key (here: where the URL is a
\* str and setex itself did not fail), whatever its flags.
C15_StoredOnSuccess ==
    (/\ pc = "schedule"
     /\ r_client
     /\ cache_key # NoneV
     /\ url_is_str
     /\ "cache_set_error" \notin events)
        => /\ cache_key[1] \in DOMAIN cache
           /\ cache[cache_key[1]] = JsonDumps(response_data[1])

\* C16: the handler's setex never writes under a key that holds an entry.
C16_NoOverwrite ==
    [][(/\ pc = "cache_store"
        /\ "cache_set" \in events'
        /\ "cache_set_error" \notin events')
           => cache_key[1] \notin DOMAIN cache]_vars

FetchFailed == events \cap {"fetch_nonzero", "fetch_raised"} # {}
InternalFault == events \cap {"no_file", "transcribe_raised"} # {}

\* C17: a fetch failure is answered with a client error (4xx), a missing
\* file or a transcription failure with a server error (5xx).
C17_ErrorClasses ==
    Answered =>
        /\ FetchFailed => outcome.status \in 400..499
        /\ InternalFault => outcome.status \in 500..599

\* after a failed get the request has no handle and attempts no set; the
\* shared handle is still there
C18_DegradedRequest ==
    CacheGetFailed
        => /\ ~r_client
           /\ redis_client
           /\ events \cap {"cache_set", "cache_set_error", "dumps_error"} = {}

\* the request received after one whose get failed starts with the handle
C18_ReceiveStep ==
    (CacheGetFailed /\ pc = "idle" /\ pc' = "cache_check") => r_client'

\* a request holding the handle attempts the get
C18_GetStep ==
    (pc = "cache_check" /\ pc' # "cache_check" /\ r_client)
        => "cache_get" \in events'

\* C18: a failed cache get stops the cache set of the same request only: the
\* shared handle is unchanged and the next request attempts the get again.
C18_DegradationPerRequest ==
    /\ [](C18_DegradedRequest)
    /\ [][C18_ReceiveStep]_vars
    /\ [][C18_GetStep]_vars

\* the second request's get was attempted and failed; it completed without
\* a set
C18_Witness ==
    /\ nreq = 2
    /\ Answered
    /\ "cache_get_error" \in events
    /\ outcome.status = 200
    /\ "cache_set" \notin events
    /\ redis_client

\* C20: with the model not loaded no working directory is ever allocated, no
\* fetch is made and no cleanup is run or scheduled; a request is answered
\* from the cache on a hit and with 503 otherwise.
C20_ModelNotLoaded ==
    ~whisper_model
        => /\ pc \in {"idle", "cache_check", "model_check"}
           /\ \A i \in ReqIds : dirs[i] = "none" /\ cleanups[i] = 0
           /\ tasks = {}
           /\ events \subseteq {"cache_get", "cache_get_error",
                                "cache_payload_error", "cache_hit"}
           /\ (Answered /\ outcome.status # 422) =>
                  IF "cache_hit" \in events
                  THEN outcome.status = 200 /\ outcome.body # NoneV
                  ELSE outcome = ErrorOutcome(503, "Model not loaded.")

\* the model is not loaded and the request was answered from the cache
C20_Witness ==
    /\ Answered
    /\ ~whisper_model
    /\ "cache_hit" \in events
    /\ outcome.status = 200
    /\ outcome.body[1].original_url = request.video_url
    /\ dirs[nreq] = "none"

====
